---- MODULE Spec2Model ----
(***************************************************************************)
(* Guardian reporting worker: the report build pipeline.                   *)
(*                                                                         *)
(* Spec        one worker running process_json / process_report_creation   *)
(*             (app/report/core.py) build after build, with the            *)
(*             Compiler-Driver (app/report/pdf.py) and notify_user         *)
(*             (app/report/__init__.py) in it.                             *)
(* SpecWorkers main() (app/main.py): the startup self-check and the pool   *)
(*             of workers, each running process_json in its own temporary  *)
(*             directory.                                                  *)
(* The creator methods, one call at a time (variables call and ret):       *)
(* SpecPlaceholders, SpecPostProcessing, SpecSeverity, SpecPlaceholderMap  *)
(*             (app/report/util.py): placeholder substitution, the         *)
(*             post-processing pass, the severity phrase and the           *)
(*             placeholder map.                                            *)
(* SpecSanitizer, SpecExcel (app/report/excel.py): the sanitizer of the    *)
(*             spreadsheet texts and the rows create() writes.             *)
(* SpecSettings (app/core/config.py, app/report/pdf.py): the timeout and   *)
(*             the pass count the Compiler-Driver takes from the settings. *)
(***************************************************************************)
EXTENDS Integers, Sequences, FiniteSets, TLC

VARIABLES
    info,     \* the ReportGenerationInfo of the build in progress
    pc,       \* position of the worker inside process_json
    sess,     \* the ORM objects of the open session (uncommitted values)
    db,       \* the committed rows
    fs,       \* the files of the working directory the compiler writes
    loc,      \* local variables of process_report_creation and pdf.create
    obs,      \* history of the build: stages attempted, notifications
    mainPc,   \* position of main()
    setup,    \* what the three checks of check_setup found
    wpc,      \* position of every worker of the pool
    wdir,     \* the temporary directory every worker holds
    dirs,     \* the temporary directories that exist
    wlast,    \* how the last build of every worker ended
    call,     \* the arguments of the creator method under study
    ret       \* what that method has computed so far, or returned

buildVars == <<info, pc, sess, db, fs, loc, obs>>
workerVars == <<mainPc, setup, wpc, wdir, dirs, wlast>>
callVars == <<call, ret>>
vars == <<info, pc, sess, db, fs, loc, obs, mainPc, setup, wpc, wdir, dirs, wlast, call, ret>>

(***************************************************************************)
(* Bounds                                                                  *)
(***************************************************************************)
MaxFindings == 2          \* findings a vulnerability request may name
pdflatex_iterations == 2  \* settings.pdflatex_iterations, the pass count n
MaxWorkers == 2           \* settings.worker_threads
MaxDirs == 3              \* directory names tempfile can draw from

(***************************************************************************)
(* Values                                                                  *)
(***************************************************************************)
\* The report version row; the findings' rows are 1..MaxFindings.
RV == 0
Findings == 1..MaxFindings
Records == {RV} \cup Findings

\* ReportRequestType
RequestTypes == {"report", "vulnerability"}

\* Contents of a file or of a stored artifact: nothing, an empty file, bytes
\* stored by an earlier build, bytes produced in this build for record t.
\* Prior stands for what an artifact field held when the build began (nothing
\* or the artifact of an earlier build): no build reads it.
NoFile == <<>>
EmptyFile == <<"empty", "file">>
Old == <<"earlier", "build">>
Prior == <<"as", "before">>
New(t) == <<t>>

\* latex_creator.tex_file: the document-source stage rewrites the files of
\* the template tree in place, so every target of a build compiles the tex
\* file of the template; the pdf and the log file of the compiler are named
\* after it (pdf.py 50-53).
TexFile(t) == "main"
TexNames == {TexFile(t) : t \in Records}

\* Requests: a report request names no finding; a vulnerability request
\* names findings, each once (the findings are alike: the first k of them).
FindingLists == {[i \in 1..k |-> i] : k \in 1..MaxFindings}
Requests ==
    {[type |-> "report", vulnerabilities |-> <<>>]}
    \cup {[type |-> "vulnerability", vulnerabilities |-> q] : q \in FindingLists}

EmptyRow == [status |-> "none", xlsx |-> Prior, tex |-> Prior, pdf |-> Prior, pdf_log |-> NoFile]
EmptyFs == [pdf |-> [n \in TexNames |-> NoFile], log |-> [n \in TexNames |-> NoFile]]
NoCreator == [bound |-> FALSE, t |-> RV, name |-> TexFile(RV)]
InitLoc ==
    [idx |-> 1, t |-> RV, tex |-> TexFile(RV), creator |-> NoCreator,
     passes |-> 0, started |-> 0, progress |-> 0, lastFile |-> NoFile, lastTimeout |-> FALSE,
     cause |-> "-", logres |-> "-", fresh |-> TRUE]
NoNote == [t |-> RV, msg |-> "-", status |-> "-"]
InitObs ==
    [phase |-> "none", escaped |-> "-", stages |-> <<>>, note |-> NoNote, notes |-> 0,
     pubFailed |-> FALSE, hadLog |-> {}]

\* When the next build begins, what the rows hold is what earlier builds left.
Aged(row) ==
    [status |-> row.status, xlsx |-> Prior, tex |-> Prior, pdf |-> Prior,
     pdf_log |-> IF row.pdf_log = NoFile THEN NoFile ELSE Old]

(***************************************************************************)
(* The state one handler works on, and how a handler's result is stored.   *)
(***************************************************************************)
St == [pc |-> pc, sess |-> sess, db |-> db, fs |-> fs, loc |-> loc, obs |-> obs]

Set(s) ==
    /\ pc' = s.pc
    /\ sess' = s.sess
    /\ db' = s.db
    /\ fs' = s.fs
    /\ loc' = s.loc
    /\ obs' = s.obs

(***************************************************************************)
(* notify_user and the session                                             *)
(***************************************************************************)
\* notify_user catches every exception of building and publishing the
\* message: the caller never sees one, whether the publish succeeded or not.
NotifyRaisesIfPublishFails(published) == ~published
NotifyRaises(published) == FALSE

\* process_report_creation.notify: the notification is handed to notify_user.
Note(s, t, msg, status, published) ==
    [s EXCEPT !.obs.note = [t |-> t, msg |-> msg, status |-> status],
              !.obs.notes = IF status = "failed" THEN @ + 1 ELSE @,
              !.obs.pubFailed = @ \/ ~published]

\* session.commit(): the objects' values become the stored rows.
Commit(s) == [s EXCEPT !.db = s.sess]

\* An exception leaves process_report_creation: process_json logs it, the
\* session closes without a commit and the temporary directory is removed.
Abort(s, cause) ==
    [s EXCEPT !.pc = "idle", !.sess = s.db, !.fs = EmptyFs,
              !.obs.phase = "aborted", !.obs.escaped = cause]

\* Bookkeeping of the stages: one entry per attempt, closed when it ends.
Begin(s, t, stage) ==
    [s EXCEPT !.obs.stages = Append(@, [t |-> t, stage |-> stage, res |-> "run"]),
              !.loc.cause = "-", !.loc.logres = "-"]
Finish(s, res) ==
    [s EXCEPT !.obs.stages[Len(s.obs.stages)].res = res]
Cause(s, cause) == [s EXCEPT !.loc.cause = cause]
LogResult(s, r) == [s EXCEPT !.loc.logres = r]

(***************************************************************************)
(* process_report_creation: the report-version build (core.py 73-175)      *)
(***************************************************************************)
\* Lines 73-90: the row is looked up, marked Generating, announced, stored.
StartReport(s, found, published) ==
    LET s1 == [s EXCEPT !.sess[RV].status = "generating", !.loc.t = RV]
        s2 == Note(s1, RV, "started", "generating", published)
    IN IF ~found THEN Abort(s, "lookup")
       ELSE IF NotifyRaises(published) THEN Abort(s2, "notify")
       ELSE [Commit(s2) EXCEPT !.pc = "excel"]

\* Lines 109-116: the failure boundary of the spreadsheet stage.
ExcelExceptReraises(s, cause, published) ==
    Abort(Cause(Finish(s, "fail"), cause), "excel")
ExcelExcept(s, cause, published) ==
    LET s1 == [Cause(Finish(s, "fail"), cause) EXCEPT !.sess[RV].status = "failed"]
        s2 == Note(s1, RV, "excel_failed", "failed", published)
    IN IF NotifyRaises(published) THEN Abort(s2, "notify")
       ELSE [s2 EXCEPT !.pc = "latex"]

\* Lines 91-116: the spreadsheet stage.
ExcelStage(s, out, pub1, pub2) ==
    LET s0 == Begin(s, RV, "excel")
        s1 == [s0 EXCEPT !.sess[RV].xlsx = New(RV)]
        s2 == Note(Commit(s1), RV, "excel_ok", "generating", pub1)
    IN CASE out = "fail" -> ExcelExcept(s0, "create", pub2)
         [] out = "ok" -> IF NotifyRaises(pub1) THEN ExcelExcept(s2, "notify", pub2)
                          ELSE [Finish(s2, "ok") EXCEPT !.pc = "latex"]

\* Lines 134-141: the failure boundary of the document-source stage. The
\* message is the one of the compile stage ("PDF file creation failed").
LatexExcept(s, cause, published) ==
    LET s1 == [Cause(Finish(s, "fail"), cause) EXCEPT !.sess[RV].status = "failed"]
        s2 == Note(s1, RV, "pdf_failed", "failed", published)
    IN IF NotifyRaises(published) THEN Abort(s2, "notify")
       ELSE [s2 EXCEPT !.pc = "pdf"]

\* Lines 117-141: the document-source stage; its creator, built outside the
\* failure boundary, names the tex file.
LatexStage(s, out, pub1, pub2) ==
    LET s0 == [Begin(s, RV, "latex") EXCEPT !.loc.tex = TexFile(RV)]
        s1 == [s0 EXCEPT !.sess[RV].tex = New(RV)]
        s2 == Note(Commit(s1), RV, "latex_ok", "generating", pub1)
    IN CASE out = "fail" -> LatexExcept(s0, "create", pub2)
         [] out = "ok" -> IF NotifyRaises(pub1) THEN LatexExcept(s2, "notify", pub2)
                          ELSE [Finish(s2, "ok") EXCEPT !.pc = "pdf"]

(***************************************************************************)
(* The compile stage, the same code for both kinds of build                *)
(* (core.py 142-175 and 202-239, pdf.py 38-113)                            *)
(***************************************************************************)
\* An exception inside the try block: control goes to its except clause.
Failing(s, cause) == [Cause(s, cause) EXCEPT !.pc = "fail"]

\* After a target: the report build returns, the loop takes the next finding.
NextTarget(s) ==
    IF info.type = "report" THEN [s EXCEPT !.pc = "end"]
    ELSE [s EXCEPT !.pc = "v_loop", !.loc.idx = @ + 1]

\* PdfReportCreator(...) and the head of create(): pdf_creator is bound once
\* the constructor returns; create() raises when the executable is missing.
PdfInit(s, out) ==
    LET s0 == Begin(s, s.loc.t, "pdf")
        s1 == [s0 EXCEPT !.loc.creator = [bound |-> TRUE, t |-> s.loc.t, name |-> s.loc.tex],
                         !.loc.passes = 0, !.loc.started = 0, !.loc.progress = 0,
                         !.loc.fresh = TRUE]
    IN CASE out = "ctor_fail" -> Failing(s0, "ctor")
         [] out = "exe_missing" -> Failing(s1, "exe")
         [] out = "ok" -> [s1 EXCEPT !.pc = "pass"]

\* The external compiler, run on the creator's tex file: it may leave the
\* pdf as it was, leave an empty one or write one, and may write its log.
CompilerRun(s, w, logw) ==
    LET c == s.loc.creator
    IN [s EXCEPT !.fs.pdf[c.name] = CASE w = "keep" -> @
                                      [] w = "empty" -> EmptyFile
                                      [] w = "full" -> New(c.t),
                 !.fs.log[c.name] = IF logw THEN New(c.t) ELSE @]

\* _create, lines 79-84: what a pass ends with, from the timeout and the
\* output file found after it.
PassOutcomeAcceptsEmpty(f, timeout) ==
    CASE timeout -> "timeout"
      [] f = NoFile -> "missing"
      [] OTHER -> "ok"
PassOutcome(f, timeout) ==
    CASE timeout -> "timeout"
      [] f = NoFile -> "missing"
      [] f = EmptyFile -> "empty"
      [] OTHER -> "ok"

\* create(), lines 92-97: one turn of the loop, the progress notification and
\* then the pass.  fresh records that every pass create() went on from had
\* itself written the non-empty file it was accepted for.
PdfPass(s, w, logw, timeout, published) ==
    LET c == s.loc.creator
        s1 == [Note(s, c.t, "compiling", "generating", published) EXCEPT !.loc.progress = @ + 1]
        s2 == [CompilerRun(s1, w, logw) EXCEPT !.loc.started = @ + 1]
        f == s2.fs.pdf[c.name]
        s3 == [s2 EXCEPT !.loc.lastFile = f, !.loc.lastTimeout = timeout]
        r == PassOutcome(f, timeout)
    IN IF NotifyRaises(published) THEN Failing(s1, "notify")
       ELSE IF r = "ok" THEN [s3 EXCEPT !.loc.passes = @ + 1,
                                        !.loc.fresh = @ /\ w = "full"]
       ELSE Failing(s3, r)

\* Lines 153-156 (212-215): the pdf is read and stored, the log cleared.
StoreSuccessKeepsLog(s) ==
    LET t == s.loc.t
    IN [s EXCEPT !.sess[t].pdf = s.fs.pdf[s.loc.creator.name],
                 !.sess[t].status = "successful"]
StoreSuccess(s) ==
    LET t == s.loc.t
    IN [s EXCEPT !.sess[t].pdf = s.fs.pdf[s.loc.creator.name],
                 !.sess[t].pdf_log = NoFile,
                 !.sess[t].status = "successful"]

\* Lines 152-162 (211-224): create() has returned.
PdfDone(s, published) ==
    LET t == s.loc.t
        s1 == StoreSuccess(s)
        s2 == Note(Commit(s1), t, "pdf_ok", "successful", published)
    IN IF NotifyRaises(published) THEN Failing(s2, "notify")
       ELSE NextTarget(Finish(s2, "ok"))

\* Lines 165-169 (227-231): the log of whatever pdf_creator names is read and
\* stored; a failure in here is logged and goes no further. pdf_creator is
\* the local variable: unbound, or the creator of an earlier finding, when
\* this target never built its own.
SaveLogPropagates(s, readOk, commitOk) ==
    LET c == s.loc.creator
        t == s.loc.t
        f == s.fs.log[c.name]
        s1 == [s EXCEPT !.sess[t].pdf_log = f]
    IN IF ~c.bound THEN Abort(LogResult(s, "unbound"), "log")
       ELSE IF f # NoFile /\ ~readOk THEN Abort(LogResult(s, "read_fail"), "log")
       ELSE IF ~commitOk THEN Abort(LogResult(s1, "store_fail"), "log")
       ELSE LogResult(Commit(s1), IF f = NoFile THEN "absent" ELSE "stored")
SaveLog(s, readOk, commitOk) ==
    LET c == s.loc.creator
        t == s.loc.t
        f == s.fs.log[c.name]
        s1 == [s EXCEPT !.sess[t].pdf_log = f]
    IN IF ~c.bound THEN LogResult(s, "unbound")
       ELSE IF f # NoFile /\ ~readOk THEN LogResult(s, "read_fail")
       ELSE IF ~commitOk THEN LogResult(s1, "store_fail")
       ELSE LogResult(Commit(s1), IF f = NoFile THEN "absent" ELSE "stored")

\* Lines 163-175 (225-239): the failure boundary of the compile stage (in a
\* vulnerability build, of the finding).
CompileExcept(s, readOk, commitOk, published) ==
    LET t == s.loc.t
        s1 == [s EXCEPT !.sess[t].status = "failed"]
        s2 == SaveLog(s1, readOk, commitOk)
        s3 == Note(Finish(s2, "fail"), t, "pdf_failed", "failed", published)
    IN IF s2.obs.phase = "aborted" THEN s2
       ELSE IF NotifyRaises(published) THEN Abort(s3, "notify")
       ELSE NextTarget(s3)

(***************************************************************************)
(* process_report_creation: the vulnerability build (core.py 176-239)      *)
(***************************************************************************)
\* Lines 177-184: the next finding is looked up, marked Generating, announced.
VNext(s, found, published) ==
    LET t == info.vulnerabilities[s.loc.idx]
        s1 == [s EXCEPT !.sess[t].status = "generating",
                        !.loc = [InitLoc EXCEPT !.idx = s.loc.idx, !.t = t,
                                                !.creator = s.loc.creator]]
        s2 == Note(s1, t, "started", "generating", published)
    IN IF ~found THEN Abort(s, "lookup")
       ELSE IF NotifyRaises(published) THEN Abort(s2, "notify")
       ELSE [s2 EXCEPT !.pc = "v_latex"]

\* Lines 185-201: the document-source stage of a finding, inside the
\* finding's one failure boundary.
VLatexStage(s, out, published) ==
    LET t == s.loc.t
        s0 == Begin(s, t, "latex")
        s1 == [s0 EXCEPT !.loc.tex = TexFile(t), !.sess[t].tex = New(t)]
        s2 == Note(s1, t, "latex_ok", "generating", published)
    IN IF out = "fail" THEN Failing(s0, "create")
       ELSE IF NotifyRaises(published) THEN Failing(s2, "notify")
       ELSE [Finish(s2, "ok") EXCEPT !.pc = "pdf"]

(***************************************************************************)
(* process_json (core.py 242-285)                                          *)
(***************************************************************************)
\* Lines 270-282: process_report_creation returned; the session is committed
\* and closed, the temporary directory removed.
EndBuild(s) ==
    LET s1 == Commit(s)
    IN [s1 EXCEPT !.pc = "idle", !.sess = s1.db, !.fs = EmptyFs, !.obs.phase = "returned"]

StageOutcomes == {"ok", "fail"}

\* Lines 248-256: a message arrives and is parsed; the temporary directory is
\* created.
Receive ==
    /\ pc = "idle"
    /\ \E parseOk \in BOOLEAN :
         /\ IF parseOk
            THEN /\ info' = info
                 /\ pc' = "prepare"
                 /\ db' = [t \in Records |-> Aged(db[t])]
                 /\ sess' = db'
                 /\ fs' = EmptyFs
                 /\ loc' = InitLoc
                 /\ obs' = [InitObs EXCEPT !.phase = "running",
                                           !.hadLog = {t \in Records : db[t].pdf_log # NoFile}]
            ELSE /\ obs' = [InitObs EXCEPT !.phase = "rejected"]
                 /\ UNCHANGED <<info, pc, sess, db, fs, loc>>
    /\ UNCHANGED <<workerVars, callVars>>

\* Lines 257-270: the template tree is copied and the session opened.
Prepare ==
    /\ pc = "prepare"
    /\ \E copyOk \in BOOLEAN :
         IF copyOk
         THEN Set([St EXCEPT !.pc = IF info.type = "report" THEN "start" ELSE "v_loop"])
         ELSE Set(Abort(St, "copytree"))
    /\ UNCHANGED <<info, workerVars, callVars>>

Start ==
    /\ pc = "start"
    /\ \E found \in BOOLEAN, published \in BOOLEAN :
         Set(StartReport(St, found, published))
    /\ UNCHANGED <<info, workerVars, callVars>>

Excel ==
    /\ pc = "excel"
    /\ \E out \in StageOutcomes, pub1 \in BOOLEAN, pub2 \in BOOLEAN :
         Set(ExcelStage(St, out, pub1, pub2))
    /\ UNCHANGED <<info, workerVars, callVars>>

Latex ==
    /\ pc = "latex"
    /\ \E out \in StageOutcomes, pub1 \in BOOLEAN, pub2 \in BOOLEAN :
         Set(LatexStage(St, out, pub1, pub2))
    /\ UNCHANGED <<info, workerVars, callVars>>

Pdf ==
    /\ pc = "pdf"
    /\ \E out \in {"ok", "ctor_fail", "exe_missing"} : Set(PdfInit(St, out))
    /\ UNCHANGED <<info, workerVars, callVars>>

Pass ==
    /\ pc = "pass"
    /\ loc.passes < pdflatex_iterations
    /\ \E w \in {"keep", "empty", "full"}, logw \in BOOLEAN, timeout \in BOOLEAN,
          published \in BOOLEAN :
         Set(PdfPass(St, w, logw, timeout, published))
    /\ UNCHANGED <<info, workerVars, callVars>>

Created ==
    /\ pc = "pass"
    /\ loc.passes = pdflatex_iterations
    /\ \E published \in BOOLEAN : Set(PdfDone(St, published))
    /\ UNCHANGED <<info, workerVars, callVars>>

Failed ==
    /\ pc = "fail"
    /\ \E readOk \in BOOLEAN, commitOk \in BOOLEAN, published \in BOOLEAN :
         Set(CompileExcept(St, readOk, commitOk, published))
    /\ UNCHANGED <<info, workerVars, callVars>>

NextFinding ==
    /\ pc = "v_loop"
    /\ loc.idx <= Len(info.vulnerabilities)
    /\ \E found \in BOOLEAN, published \in BOOLEAN : Set(VNext(St, found, published))
    /\ UNCHANGED <<info, workerVars, callVars>>

LatexFinding ==
    /\ pc = "v_latex"
    /\ \E out \in StageOutcomes, published \in BOOLEAN :
         Set(VLatexStage(St, out, published))
    /\ UNCHANGED <<info, workerVars, callVars>>

LoopDone ==
    /\ pc = "v_loop"
    /\ loc.idx > Len(info.vulnerabilities)
    /\ Set([St EXCEPT !.pc = "end"])
    /\ UNCHANGED <<info, workerVars, callVars>>

End ==
    /\ pc = "end"
    /\ Set(EndBuild(St))
    /\ UNCHANGED <<info, workerVars, callVars>>

(***************************************************************************)
(* main() and the pool of workers (main.py 34-56, core.py 43-49, 242-285)  *)
(***************************************************************************)
Workers == 1..MaxWorkers
DirNames == 1..MaxDirs
\* A worker that is not inside a TemporaryDirectory block holds no directory.
NoDir == 0

\* check_setup: the three checks run in turn, the first that raises ends it.
CheckSetupSkipsExcel(pdfOk, latexOk, excelOk) == pdfOk /\ latexOk
CheckSetup(pdfOk, latexOk, excelOk) == pdfOk /\ latexOk /\ excelOk

\* tempfile.TemporaryDirectory(): a directory is created under a name that
\* no existing directory has.
FreshDirs(existing) == DirNames \ existing

\* Leaving the TemporaryDirectory block, however the build ended.
DirsAfterExitKeptOnError(existing, d, out) ==
    IF out = "raised" THEN existing ELSE existing \ {d}
DirsAfterExit(existing, d, out) == existing \ {d}

\* main(), lines 50-56: check_setup, then the worker tasks are created.
Main ==
    /\ mainPc = "check"
    /\ \E pdfOk \in BOOLEAN, latexOk \in BOOLEAN, excelOk \in BOOLEAN :
         /\ setup' = [pdf |-> pdfOk, latex |-> latexOk, excel |-> excelOk]
         /\ mainPc' = IF CheckSetup(pdfOk, latexOk, excelOk) THEN "serving" ELSE "crashed"
    /\ UNCHANGED <<wpc, wdir, dirs, wlast, buildVars, callVars>>

\* consume_messages, lines 34-47: the task subscribes to the channel; when
\* that raises, the exception is logged and the task ends.
Subscribe(w) ==
    /\ mainPc = "serving"
    /\ wpc[w] = "unstarted"
    /\ \E subscribed \in BOOLEAN :
         wpc' = [wpc EXCEPT ![w] = IF subscribed THEN "waiting" ELSE "stopped"]
    /\ UNCHANGED <<mainPc, setup, wdir, dirs, wlast, buildVars, callVars>>

\* process_json, lines 248-256: the callback is invoked with a message; a
\* message that does not parse is logged, another one gets its directory.
Deliver(w) ==
    /\ wpc[w] = "waiting"
    /\ \E parseOk \in BOOLEAN :
         IF parseOk
         THEN \E d \in FreshDirs(dirs) :
                /\ wpc' = [wpc EXCEPT ![w] = "copy"]
                /\ wdir' = [wdir EXCEPT ![w] = d]
                /\ dirs' = dirs \cup {d}
                /\ wlast' = [wlast EXCEPT ![w] = "none"]
         ELSE /\ wlast' = [wlast EXCEPT ![w] = "rejected"]
              /\ UNCHANGED <<wpc, wdir, dirs>>
    /\ UNCHANGED <<mainPc, setup, buildVars, callVars>>

\* process_json, lines 257-270: the template tree is copied; when that
\* raises, lines 279-281 log it and the block is left.
CopyTree(w) ==
    /\ wpc[w] = "copy"
    /\ \E copyOk \in BOOLEAN :
         IF copyOk
         THEN /\ wpc' = [wpc EXCEPT ![w] = "running"]
              /\ UNCHANGED <<wdir, dirs, wlast>>
         ELSE /\ wpc' = [wpc EXCEPT ![w] = "waiting"]
              /\ dirs' = DirsAfterExit(dirs, wdir[w], "raised")
              /\ wdir' = [wdir EXCEPT ![w] = NoDir]
              /\ wlast' = [wlast EXCEPT ![w] = "raised"]
    /\ UNCHANGED <<mainPc, setup, buildVars, callVars>>

\* process_json, lines 270-282: process_report_creation, suspended at its
\* awaits while other workers run, returns (every stage succeeded, or one
\* failed inside its boundary) or raises; the block is left.
BuildOutcomes == {"succeeded", "stage_failed", "raised"}
Build(w) ==
    /\ wpc[w] = "running"
    /\ \E out \in BuildOutcomes :
         /\ wpc' = [wpc EXCEPT ![w] = "waiting"]
         /\ dirs' = DirsAfterExit(dirs, wdir[w], out)
         /\ wdir' = [wdir EXCEPT ![w] = NoDir]
         /\ wlast' = [wlast EXCEPT ![w] = out]
    /\ UNCHANGED <<mainPc, setup, buildVars, callVars>>

InitWorkers ==
    /\ mainPc = "check"
    /\ setup = [pdf |-> FALSE, latex |-> FALSE, excel |-> FALSE]
    /\ wpc = [w \in Workers |-> "unstarted"]
    /\ wdir = [w \in Workers |-> NoDir]
    /\ dirs = {}
    /\ wlast = [w \in Workers |-> "none"]

NoCall == <<>>

InitCalls ==
    /\ call = NoCall
    /\ ret = NoCall

InitBuild ==
    /\ pc = "idle"
    /\ db = [t \in Records |-> EmptyRow]
    /\ sess = db
    /\ fs = EmptyFs
    /\ loc = InitLoc
    /\ obs = InitObs

\* Spec: one worker and its builds; the pool's variables stay as they are.
Init ==
    /\ info \in Requests
    /\ InitBuild
    /\ InitWorkers
    /\ InitCalls

Next ==
    \/ Receive
    \/ Prepare
    \/ Start
    \/ Excel
    \/ Latex
    \/ Pdf
    \/ Pass
    \/ Created
    \/ Failed
    \/ NextFinding
    \/ LatexFinding
    \/ LoopDone
    \/ End

Spec == Init /\ [][Next]_vars

\* SpecWorkers: the pool; the variables of the single build stay as they are.
InitPool ==
    /\ info = [type |-> "report", vulnerabilities |-> <<>>]
    /\ InitBuild
    /\ InitWorkers
    /\ InitCalls

NextPool ==
    \/ Main
    \/ \E w \in Workers : Subscribe(w)
    \/ \E w \in Workers : Deliver(w)
    \/ \E w \in Workers : CopyTree(w)
    \/ \E w \in Workers : Build(w)

SpecWorkers == InitPool /\ [][NextPool]_vars

(***************************************************************************)
(* Text: a str is the sequence of its characters.  The character classes   *)
(* of the regular expressions are given over the characters the texts of   *)
(* the model are made of.                                                   *)
(***************************************************************************)
MaxPieces == 2            \* pieces (characters, tokens, words) a text is made of

None == [some |-> FALSE, v |-> <<>>]
Some(v) == [some |-> TRUE, v |-> v]
\* Python's truth value of an Optional[str]: None and "" are both false.
Truthy(o) == o.some /\ o.v # <<>>

\* [a-zA-Z0-9], as in _re_cvs_injection
Alnum == {"a", "b", "h", "x", "0", "1", "2", "3", "4"}
Whitespace == {" ", "\n"}
\* \w of pre_placeholder_pattern
WordChars == Alnum \cup {"_"}
\* [\w\\\.:\-\s=\(\),;] of pre_placeholder_pattern
ParamChars == WordChars \cup Whitespace \cup {"\\", ".", ":", "-", "=", "(", ")", ",", ";"}

RECURSIVE Concat(_)
Concat(ss) == IF ss = <<>> THEN <<>> ELSE Head(ss) \o Concat(Tail(ss))

StartsAt(text, i, lit) ==
    /\ i + Len(lit) - 1 <= Len(text)
    /\ SubSeq(text, i, i + Len(lit) - 1) = lit

\* The end of the longest run of characters of a class that starts at i.
RECURSIVE RunEnd(_, _, _)
RunEnd(text, i, class) ==
    IF i <= Len(text) /\ text[i] \in class THEN RunEnd(text, i + 1, class) ELSE i

\* str.strip()
RECURSIVE Strip(_)
Strip(t) ==
    IF t = <<>> THEN t
    ELSE IF Head(t) \in Whitespace THEN Strip(Tail(t))
    ELSE IF t[Len(t)] \in Whitespace THEN Strip(SubSeq(t, 1, Len(t) - 1))
    ELSE t

\* str.split(sep) for a separator of one character
RECURSIVE Find(_, _, _)
Find(t, i, c) == IF i <= Len(t) /\ t[i] # c THEN Find(t, i + 1, c) ELSE i

RECURSIVE Split(_, _)
Split(t, sep) ==
    LET cut == Find(t, 1, sep)
    IN  IF cut > Len(t) THEN <<t>>
        ELSE <<SubSeq(t, 1, cut - 1)>> \o Split(SubSeq(t, cut + 1, Len(t)), sep)

\* str.replace(old, new) for an old of one character
RECURSIVE Replace(_, _, _)
Replace(t, old, new) ==
    IF t = <<>> THEN <<>>
    ELSE (IF Head(t) = old THEN new ELSE <<Head(t)>>) \o Replace(Tail(t), old, new)

(***************************************************************************)
(* replace_placeholders (util.py 65, 276-353)                              *)
(***************************************************************************)
NoMatch == [ok |-> FALSE, end |-> 0, name |-> <<>>, params |-> None]

\* pre_placeholder_pattern matched at position i: \{\{\.(\w+)(?::([...]+))?\}\}
pre_placeholder_pattern(text, i) ==
    IF ~StartsAt(text, i, <<"{", "{", ".">>) THEN NoMatch
    ELSE LET n == RunEnd(text, i + 3, WordChars)
             m == RunEnd(text, n + 1, ParamChars)
         IN  IF n = i + 3 THEN NoMatch
             ELSE IF StartsAt(text, n, <<"}", "}">>)
                  THEN [ok |-> TRUE, end |-> n + 1,
                        name |-> SubSeq(text, i + 3, n - 1), params |-> None]
             ELSE IF StartsAt(text, n, <<":">>) /\ m > n + 1 /\ StartsAt(text, m, <<"}", "}">>)
                  THEN [ok |-> TRUE, end |-> m + 1,
                        name |-> SubSeq(text, i + 3, n - 1),
                        params |-> Some(SubSeq(text, n + 1, m - 1))]
             ELSE NoMatch

\* dict[key] = value
DictSet(d, key, value) ==
    [k \in DOMAIN d \cup {key} |-> IF k = key THEN value ELSE d[k]]

EmptyDict == [k \in {} |-> <<>>]

\* The for loop of parse_parameters over the stripped fragments.
RECURSIVE ParseItems(_, _)
ParseItems(items, d) ==
    IF items = <<>> THEN [raised |-> FALSE, dict |-> d]
    ELSE LET parts == Split(Head(items), "=")
         IN  IF Len(parts) # 2 THEN [raised |-> TRUE, dict |-> EmptyDict]
             ELSE ParseItems(Tail(items), DictSet(d, Strip(parts[1]), Strip(parts[2])))

parse_parameters(params) ==
    IF ~Truthy(params) THEN [raised |-> FALSE, dict |-> EmptyDict]
    ELSE LET frags == Split(params.v, ";")
         IN  ParseItems([i \in 1..Len(frags) |-> Strip(frags[i])], EmptyDict)

replace_placeholders_only_func(matched_string, final_name) ==
    IF Truthy(final_name) THEN final_name.v ELSE matched_string

replace_placeholders_only_with_latex_escape_func(matched_string, final_name) ==
    LET result == Replace(Replace(Replace(matched_string, "_", <<"\\", "_">>),
                                  "{", <<"\\", "{">>), "}", <<"\\", "}">>)
    IN  IF Truthy(final_name) THEN final_name.v ELSE result

placeholder_fn(strategy, matched_string, final_name) ==
    IF strategy = "plain"
    THEN replace_placeholders_only_func(matched_string, final_name)
    ELSE replace_placeholders_only_with_latex_escape_func(matched_string, final_name)

\* dict.get(name)
Get(values, name) == IF name \in DOMAIN values THEN Some(values[name]) ELSE None

\* placeholder_pattern.sub(replacement, report_text) from position i on.
RECURSIVE Sub(_, _, _, _, _)
Sub(text, i, values, strategy, acc) ==
    IF i > Len(text) THEN acc
    ELSE LET match == pre_placeholder_pattern(text, i)
             params == parse_parameters(match.params)
             group0 == SubSeq(text, i, match.end)
         IN  IF ~match.ok
             THEN Sub(text, i + 1, values, strategy,
                      [acc EXCEPT !.text = @ \o <<text[i]>>])
             ELSE IF params.raised
             THEN [raised |-> TRUE, text |-> <<>>, msg |-> match.params.v,
                   handed |-> acc.handed]
             ELSE Sub(text, match.end + 1, values, strategy,
                      [acc EXCEPT
                          !.text = @ \o placeholder_fn(strategy, group0, Get(values, match.name)),
                          !.handed = Append(@, params.dict)])

\* The result is the text, or the error raised; handed lists the parameter
\* sets given to placeholder_fn.
replace_placeholders(report_text, placeholder_values, strategy) ==
    Sub(report_text, 1, placeholder_values, strategy,
        [raised |-> FALSE, text |-> <<>>, msg |-> <<>>, handed |-> <<>>])

(***************************************************************************)
(* test_cvs_injection (excel.py 65-81)                                     *)
(***************************************************************************)
\* _re_cvs_injection matched at position i: ^([^a-zA-Z0-9]), where ^ under
\* re.MULTILINE is the start of the text and the position after a newline
re_cvs_injection(text, i) ==
    /\ i = 1 \/ text[i - 1] = "\n"
    /\ text[i] \notin Alnum

\* _re_cvs_injection.sub(cvs_injection, markdown) from position i on.  The
\* warning reads self.latest_version_info.version, which raises
\* AttributeError when the report has no version (util.py 52).
RECURSIVE CvsSub(_, _, _, _)
CvsSub(text, i, hasVersion, acc) ==
    IF i > Len(text) THEN acc
    ELSE IF ~re_cvs_injection(text, i)
    THEN CvsSub(text, i + 1, hasVersion, [acc EXCEPT !.text = @ \o <<text[i]>>])
    ELSE IF ~hasVersion
    THEN [raised |-> TRUE, text |-> <<>>, warnings |-> acc.warnings]
    ELSE CvsSub(text, i + 1, hasVersion, [acc EXCEPT !.warnings = @ + 1])

test_cvs_injection(markdown, hasVersion) ==
    CvsSub(markdown, 1, hasVersion, [raised |-> FALSE, text |-> <<>>, warnings |-> 0])

(***************************************************************************)
(* post_processing_func (util.py 59-64, 355-367)                           *)
(***************************************************************************)
Href == <<"\\", "h", "r", "e", "f">>

SuperscriptKeepsSuffix(suffix) == suffix \o <<"$", "^", "{">> \o suffix \o <<"}", "$">>

Superscript(suffix) == <<"$", "^", "{">> \o suffix \o <<"}", "$">>

\* _re_numbering in the order of the dict: group 1 is one of the
\* alternatives (sequences of character classes, tried in order), followed
\* by the suffix; the match is replaced by group 1 and repl.
re_numbering ==
    LET SpaceOrNot1 == Whitespace \cup {"2", "3", "4", "5", "6", "7", "8", "9", "0"}
        FourToZero == {"4", "5", "6", "7", "8", "9", "0"}
    IN
    << [alts |-> << <<SpaceOrNot1, {"1"}>> >>, suffix |-> <<"s", "t">>,
        repl |-> Superscript(<<"s", "t">>)],
       [alts |-> << <<SpaceOrNot1, {"2"}>> >>, suffix |-> <<"n", "d">>,
        repl |-> Superscript(<<"n", "d">>)],
       [alts |-> << <<SpaceOrNot1, {"3"}>> >>, suffix |-> <<"r", "d">>,
        repl |-> Superscript(<<"n", "d">>)],
       [alts |-> << <<Whitespace, {"1"}, {"1"}>>, <<Whitespace, {"1"}, {"2"}>>,
                    <<Whitespace, {"1"}, {"3"}>>, <<FourToZero>> >>,
        suffix |-> <<"t", "h">>,
        repl |-> Superscript(<<"t", "h">>)] >>

\* The characters from position i on are in the classes of alt, one by one.
ClassesAt(text, i, alt) ==
    /\ i + Len(alt) - 1 <= Len(text)
    /\ \A k \in 1..Len(alt) : text[i + k - 1] \in alt[k]

\* The length of group 1 when pattern pat matches at i (first alternative
\* that matches together with the suffix), or 0.
RECURSIVE GroupLen(_, _, _, _)
GroupLen(text, i, pat, a) ==
    IF a > Len(pat.alts) THEN 0
    ELSE IF /\ ClassesAt(text, i, pat.alts[a])
            /\ StartsAt(text, i + Len(pat.alts[a]), pat.suffix)
         THEN Len(pat.alts[a])
    ELSE GroupLen(text, i, pat, a + 1)

\* re.sub(pattern, repl, string) for a pattern of _re_numbering, from i on
RECURSIVE NumberingSub(_, _, _)
NumberingSub(text, i, pat) ==
    IF i > Len(text) THEN <<>>
    ELSE LET g == GroupLen(text, i, pat, 1)
         IN  IF g = 0 THEN <<text[i]>> \o NumberingSub(text, i + 1, pat)
             ELSE SubSeq(text, i, i + g - 1) \o pat.repl
                  \o NumberingSub(text, i + g + Len(pat.suffix), pat)

\* for pattern, repl in self._re_numbering.items(): result = re.sub(...)
RECURSIVE NumberingLoop(_, _)
NumberingLoop(text, k) ==
    IF k > Len(re_numbering) THEN text
    ELSE NumberingLoop(NumberingSub(text, 1, re_numbering[k]), k + 1)

\* re.sub("\\href[\s\n]*\{", "\\slink{", content) from position i on
RECURSIVE HrefSub(_, _)
HrefSub(text, i) ==
    IF i > Len(text) THEN <<>>
    ELSE LET e == RunEnd(text, i + Len(Href), Whitespace)
         IN  IF StartsAt(text, i, Href) /\ StartsAt(text, e, <<"{">>)
             THEN <<"\\", "s", "l", "i", "n", "k", "{">> \o HrefSub(text, e + 1)
             ELSE <<text[i]>> \o HrefSub(text, i + 1)

post_processing_func(content) ==
    NumberingLoop(NumberingLoop(HrefSub(content, 1), 1), 1)

(***************************************************************************)
(* The calls of the text methods.  A template is given as its pieces and   *)
(* handed to the method as the text they spell.                            *)
(***************************************************************************)
MaxChars == 4             \* characters of a text given to the sanitizer
MaxWords == 2             \* words of a text given to the post-processing pass

Names == {<<"a">>, <<"a", "_", "b">>}

\* The pieces of a template: a character outside tokens, or a token with
\* or without parameters.
Pieces ==
    LET ParamTexts ==
            { <<"a", "=", "b">>, <<" ", "a", " ", "=", " ", "b">>, <<"a">>,
              <<"a", "=", "b", ";", "b", "=", "x">>, <<"a", "=", "b", ";", "b">>,
              <<"a", "=", "b", ";", "a", "=", "x">> }
    IN  [kind : {"char"}, c : {"x", "_", "}"}, name : {<<>>}, params : {None}]
        \cup [kind : {"token"}, c : {"-"}, name : Names,
              params : {None} \cup {Some(p) : p \in ParamTexts}]

Spell(piece) ==
    IF piece.kind = "char" THEN <<piece.c>>
    ELSE <<"{", "{", ".">> \o piece.name
         \o (IF piece.params.some THEN <<":">> \o piece.params.v ELSE <<>>)
         \o <<"}", "}">>

Render(pieces) == Concat([i \in 1..Len(pieces) |-> Spell(pieces[i])])

InitOther ==
    /\ info = [type |-> "report", vulnerabilities |-> <<>>]
    /\ InitBuild
    /\ InitWorkers

\* SpecPlaceholders: one call of replace_placeholders.
InitPlaceholders ==
    /\ call \in [fn : {"replace_placeholders"},
                 pieces : UNION {[1..k -> Pieces] : k \in 0..MaxPieces},
                 placeholder_values :
                     UNION {[D -> {<<>>, <<"x">>, <<"_">>}] : D \in SUBSET Names},
                 strategy : {"plain", "escaped"}]
    /\ ret = NoCall
    /\ InitOther

ReplacePlaceholders ==
    /\ call.fn = "replace_placeholders"
    /\ ret = NoCall
    /\ ret' = replace_placeholders(Render(call.pieces), call.placeholder_values,
                                   call.strategy)
    /\ UNCHANGED <<call, buildVars, workerVars>>

SpecPlaceholders == InitPlaceholders /\ [][ReplacePlaceholders]_vars

\* SpecSanitizer: one call of test_cvs_injection.
InitSanitizer ==
    /\ call \in [fn : {"test_cvs_injection"},
                 markdown : UNION {[1..k -> {"a", "1", "!", "=", "\n"}] : k \in 0..MaxChars},
                 hasVersion : BOOLEAN]
    /\ ret = NoCall
    /\ InitOther

TestCvsInjection ==
    /\ call.fn = "test_cvs_injection"
    /\ ret = NoCall
    /\ ret' = test_cvs_injection(call.markdown, call.hasVersion)
    /\ UNCHANGED <<call, buildVars, workerVars>>

SpecSanitizer == InitSanitizer /\ [][TestCvsInjection]_vars

\* SpecPostProcessing: post_processing_func on a text, then on its own output.
Words ==
    LET Units == {<<"1">>, <<"2">>, <<"3">>, <<"4">>}
        Teens == {<<"1", "1">>, <<"1", "3">>}
        Suffixes == {<<"s", "t">>, <<"n", "d">>, <<"r", "d">>, <<"t", "h">>}
    IN  {<<" ">> \o n \o x : n \in Units, x \in Suffixes}
        \cup {<<" ">> \o n \o <<"t", "h">> : n \in Teens}
        \cup {<<"1", "s", "t">>}
        \cup {Href, Href \o <<"{">>, Href \o <<" ", "{">>}

InitPostProcessing ==
    /\ call \in [fn : {"post_processing_func"},
                 content : {Concat(ws) : ws \in UNION {[1..k -> Words] : k \in 0..MaxWords}}]
    /\ ret = NoCall
    /\ InitOther

PostProcessing ==
    /\ call.fn = "post_processing_func"
    /\ ret = NoCall
    /\ ret' = <<post_processing_func(call.content)>>
    /\ UNCHANGED <<call, buildVars, workerVars>>

PostProcessingAgain ==
    /\ call.fn = "post_processing_func"
    /\ Len(ret) = 1
    /\ ret' = Append(ret, post_processing_func(ret[1]))
    /\ UNCHANGED <<call, buildVars, workerVars>>

NextPostProcessing ==
    \/ PostProcessing
    \/ PostProcessingAgain

SpecPostProcessing == InitPostProcessing /\ [][NextPostProcessing]_vars

(***************************************************************************)
(* severity_distribution_str (util.py 186-209).  The phrases of the        *)
(* placeholder map are sequences of the string pieces they are built from. *)
(***************************************************************************)
MaxCount == 2             \* findings of one severity

DigitOf(d) == <<"0", "1", "2", "3", "4", "5", "6", "7", "8", "9">>[d + 1]

\* str(n) of a natural number
RECURSIVE Str(_)
Str(n) == IF n < 10 THEN <<DigitOf(n)>> ELSE Str(n \div 10) \o <<DigitOf(n % 10)>>

\* separator.join(items)
RECURSIVE Join(_, _)
Join(separator, items) ==
    IF items = <<>> THEN <<>>
    ELSE IF Len(items) = 1 THEN items[1]
    ELSE items[1] \o <<separator>> \o Join(separator, Tail(items))

\* if critical: values.append(f"{critical} critical-") and so on
RECURSIVE SeverityValues(_, _)
SeverityValues(severity_distribution, k) ==
    IF k > Len(severity_distribution) THEN <<>>
    ELSE (IF severity_distribution[k] # 0
          THEN << Str(severity_distribution[k])
                  \o << <<" critical-", " high-", " medium-", " low-">>[k] >> >>
          ELSE <<>>)
         \o SeverityValues(severity_distribution, k + 1)

RECURSIVE Sum(_)
Sum(counts) == IF counts = <<>> THEN 0 ELSE Head(counts) + Sum(Tail(counts))

PluralFromOne(vulnerability_count) ==
    IF vulnerability_count > 0 THEN <<"s">> ELSE <<>>

\* 's' if vulnerability_count > 1 else ''
Plural(vulnerability_count) ==
    IF vulnerability_count > 1 THEN <<"s">> ELSE <<>>

severity_distribution_str(severity_distribution) ==
    LET values == SeverityValues(severity_distribution, 1)
        vulnerability_count == Sum(severity_distribution)
    IN  IF Len(values) = 0 THEN <<>>
        ELSE IF Len(values) = 1
        THEN values[1] \o <<"severity issue">> \o Plural(vulnerability_count)
        ELSE Join(", ", SubSeq(values, 1, Len(values) - 1))
             \o <<" and ">> \o values[Len(values)] \o <<"severity issues">>

\* SpecSeverity: one read of severity_distribution_str.
InitSeverity ==
    /\ call \in [fn : {"severity_distribution_str"},
                 severity_distribution : [1..4 -> 0..MaxCount]]
    /\ ret = NoCall
    /\ InitOther

SeverityDistributionStr ==
    /\ call.fn = "severity_distribution_str"
    /\ ret = NoCall
    /\ ret' = <<severity_distribution_str(call.severity_distribution)>>
    /\ UNCHANGED <<call, buildVars, workerVars>>

SpecSeverity == InitSeverity /\ [][SeverityDistributionStr]_vars

(***************************************************************************)
(* placeholders, assessors and join_list (util.py 72-131, 217-260)         *)
(***************************************************************************)
MaxItems == 3             \* applications, reasons, environments, testers

Raised == [raised |-> TRUE, text |-> <<>>]
Text(t) == [raised |-> FALSE, text |-> t]

join_list(language_code, result, separator) ==
    IF language_code # "en" THEN Raised
    ELSE IF Len(result) = 0 THEN Text(<<>>)
    ELSE IF Len(result) = 1 THEN Text(result[1])
    ELSE IF Len(result) = 2 THEN Text(result[1] \o <<" and ">> \o result[2])
    ELSE Text(Join(separator, SubSeq(result, 1, Len(result) - 1))
              \o <<", and ">> \o result[Len(result)])

\* A full name is given by its place in the alphabet.
NoPerson == 0
FullName(rank) == <<"name">> \o Str(rank)

\* sorted(names)
RECURSIVE Insert(_, _)
Insert(sorted, x) ==
    IF sorted = <<>> THEN <<x>>
    ELSE IF x <= Head(sorted) THEN <<x>> \o sorted
    ELSE <<Head(sorted)>> \o Insert(Tail(sorted), x)
RECURSIVE Sorted(_)
Sorted(names) == IF names = <<>> THEN <<>> ELSE Insert(Sorted(Tail(names)), Head(names))

assessors(project) ==
    LET names == Sorted((IF project.lead_tester # NoPerson
                         THEN <<project.lead_tester>> ELSE <<>>) \o project.testers)
    IN  join_list(project.language_code, [i \in 1..Len(names) |-> FullName(names[i])], ", ")

\* x or "n/a"
OrNA(t) == IF t = <<>> THEN <<"n/a">> ELSE t

\* if cond: self._placeholders[key] = ... for every key of entries
WithKeys(d, cond, entries) ==
    IF ~cond THEN d
    ELSE [k \in DOMAIN d \cup DOMAIN entries |->
            IF k \in DOMAIN entries THEN entries[k] ELSE d[k]]

\* The values of fields that are only copied into the map.
Fields(keys) == [k \in keys |-> <<k>>]

\* The four joins of the map, as join_list is called for them.
application_names(project) ==
    join_list(project.language_code,
              [i \in 1..project.applications |->
                  <<"app">> \o Str(i) \o <<" (", "id">> \o Str(i) \o <<")">>], ", ")
test_reasons(project) ==
    join_list(project.language_code, [i \in 1..project.reasons |-> <<"reason">> \o Str(i)], " ")
test_environments(project) ==
    join_list(project.language_code,
              [i \in 1..project.environments |-> <<"env">> \o Str(i)], ", ")

PlaceholdersFailed == [raised |-> TRUE, map |-> EmptyDict, joins |-> EmptyDict]

placeholders(project) ==
    LET apps == application_names(project)
        reasons == test_reasons(project)
        envs == test_environments(project)
        team == assessors(project)
        always ==
            Fields({"classification", "project_id", "project_name", "project_type",
                    "project_start_date", "test_location"})
        base ==
            [k \in DOMAIN always \cup {"vulnerability_counts", "application_names",
                                       "test_reasons", "test_environments", "assessors"} |->
                CASE k = "vulnerability_counts" ->
                         severity_distribution_str(project.severity_distribution)
                  [] k = "application_names" -> OrNA(apps.text)
                  [] k = "test_reasons" -> OrNA(reasons.text)
                  [] k = "test_environments" -> OrNA(envs.text)
                  [] k = "assessors" -> team.text
                  [] OTHER -> always[k]]
        m1 == WithKeys(base, project.has_version, Fields({"pdf_file_name", "xlsx_file_name"}))
        m2 == WithKeys(m1, project.end_date, Fields({"test_days"}))
        m3 == WithKeys(m2, project.has_version,
                       Fields({"report_version", "report_status", "delivery_date"}))
        m4 == WithKeys(m3, project.end_date, Fields({"project_end_date", "test_period"}))
        m5 == WithKeys(m4, project.lead_tester # NoPerson, Fields({"lead_tester_name"}))
        m6 == WithKeys(m5, project.manager, Fields({"manager_name"}))
        m7 == WithKeys(m6, project.provider,
                       Fields({"provider_name", "provider_short", "provider_address"}))
        \* util.py 126: the customer keys are guarded by the provider
        m8 == WithKeys(m7, project.provider,
                       Fields({"customer_name", "customer_short", "customer_address"}))
    IN  IF apps.raised \/ reasons.raised \/ envs.raised \/ team.raised
        THEN PlaceholdersFailed
        \* self.project.customer.name with customer None: AttributeError
        ELSE IF project.provider /\ ~project.customer THEN PlaceholdersFailed
        ELSE [raised |-> FALSE, map |-> m8,
              joins |-> [application_names |-> apps.text, test_reasons |-> reasons.text,
                         test_environments |-> envs.text, assessors |-> team.text]]

\* The testers of a project are given out of alphabetical order, the lead
\* tester's name lies between theirs.
Projects ==
    [language_code : {"en", "de"},
     applications : 0..MaxItems, reasons : 0..MaxItems, environments : 0..MaxItems,
     testers : {[i \in 1..k |-> 2 * (k - i) + 1] : k \in 0..MaxItems},
     lead_tester : {NoPerson, 2},
     manager : BOOLEAN, provider : BOOLEAN, customer : BOOLEAN,
     end_date : BOOLEAN, has_version : BOOLEAN,
     severity_distribution : {<<MaxCount, 1, 0, 0>>}]

\* SpecPlaceholderMap: one read of the placeholders property.
InitPlaceholderMap ==
    /\ call \in [fn : {"placeholders"}, project : Projects]
    /\ ret = NoCall
    /\ InitOther

Placeholders ==
    /\ call.fn = "placeholders"
    /\ ret = NoCall
    /\ ret' = placeholders(call.project)
    /\ UNCHANGED <<call, buildVars, workerVars>>

SpecPlaceholderMap == InitPlaceholderMap /\ [][Placeholders]_vars

(***************************************************************************)
(* ReportCreator.create of the spreadsheet (excel.py 143-207)              *)
(***************************************************************************)
\* SpecExcel: one call of create, finding by finding.  The findings are
\* those of the report's sections in the order of the two loops; ref is
\* tb.ref of the template, the header row and the template row below it;
\* excel_template_row is the setting that names the row whose style is
\* copied (template), counted from the header row.
InitExcel ==
    /\ call \in [fn : {"create"},
                 findings : UNION {[1..k -> [visible : BOOLEAN,
                                             status : {"resolved", "other"}]] :
                                     k \in 0..MaxFindings},
                 ref : {[from_y |-> h, to_y |-> h + 1] : h \in {1, 2}},
                 excel_template_row : {1, 2}]
    /\ ret = NoCall
    /\ InitOther

\* load_workbook ... row = from_y + 1
CreateOpen ==
    /\ call.fn = "create"
    /\ ret = NoCall
    /\ ret' = [at |-> "loop", i |-> 1, row |-> call.ref.from_y + 1,
               cells |-> [r \in {} |-> 0], styled |-> {}, ref |-> call.ref,
               template |-> call.ref.from_y + call.excel_template_row]
    /\ UNCHANGED <<call, buildVars, workerVars>>

\* One round of the loop over the findings: the cells of the finding are
\* written to the current row, row += 1, the style is copied to the new
\* row, row += 1.
PopulateRow(r, vulnerability) ==
    IF ~vulnerability.visible \/ vulnerability.status \in {"resolved"}
    THEN [r EXCEPT !.i = @ + 1]
    ELSE [r EXCEPT !.i = @ + 1,
                   !.cells = [y \in DOMAIN @ \cup {r.row} |->
                                 IF y = r.row THEN r.i ELSE @[y]],
                   !.styled = IF r.row + 1 # r.ref.from_y + 1 THEN @ \cup {r.row + 1} ELSE @,
                   !.row = r.row + 1 + 1]

CreateFinding ==
    /\ call.fn = "create"
    /\ ret # NoCall
    /\ ret.at = "loop"
    /\ ret.i <= Len(call.findings)
    /\ ret' = PopulateRow(ret, call.findings[ret.i])
    /\ UNCHANGED <<call, buildVars, workerVars>>

\* tb.ref = f"...{from_y}:...{row - 1}"; workbook.save
CreateSave ==
    /\ call.fn = "create"
    /\ ret # NoCall
    /\ ret.at = "loop"
    /\ ret.i > Len(call.findings)
    /\ ret' = [ret EXCEPT !.at = "saved", !.ref.to_y = ret.row - 1]
    /\ UNCHANGED <<call, buildVars, workerVars>>

NextExcel ==
    \/ CreateOpen
    \/ CreateFinding
    \/ CreateSave

SpecExcel == InitExcel /\ [][NextExcel]_vars

(***************************************************************************)
(* Settings (core/config.py 37-57) and the Compiler-Driver that reads them *)
(* (pdf.py 38-55)                                                          *)
(***************************************************************************)
MaxDigits == 2            \* characters of one environment value

\* os.getenv(key, default): the text of the variable, or the default as it
\* was passed (None when no default is given)
getenv(environ, key, default) ==
    IF Truthy(environ[key]) THEN [type |-> "str", v |-> environ[key].v] ELSE default

\* The number a text of decimal digits spells in the given base.
RECURSIVE Parse(_, _)
Parse(text, base) ==
    IF text = <<>> THEN 0
    ELSE Parse(SubSeq(text, 1, Len(text) - 1), base) * base
         + (CHOOSE d \in 0..9 : DigitOf(d) = text[Len(text)])

\* int(x) and int(x, base); base = 0 stands for the call without a base.
\* A text is read in the base given, in base ten without one; an int is
\* returned as it is; anything but a text with a base is a TypeError, and
\* so is None without one.
int(x, base) ==
    IF x.type = "str"
    THEN [raised |-> FALSE, v |-> Parse(x.v, IF base = 0 THEN 10 ELSE base)]
    ELSE IF base = 0 /\ x.type = "int"
    THEN [raised |-> FALSE, v |-> x.v]
    ELSE [raised |-> TRUE, v |-> 0]

\* Settings.__init__, the two values the Compiler-Driver takes
Settings(environ) ==
    LET timeout == int(getenv(environ, "PDFLATEX_EXECUTION_TIMEOUT", [type |-> "NoneType"]), 30)
        times == int(getenv(environ, "PDFLATEX_EXECUTION_TIMES", [type |-> "int", v |-> 3]), 0)
    IN  [at |-> "settings",
         raised |-> timeout.raised \/ times.raised,
         pdflatex_timeout |-> timeout.v,
         pdflatex_iterations |-> times.v]

\* SpecSettings: the module-level settings = Settings() under one
\* environment, then the construction of one Compiler-Driver.
InitSettings ==
    /\ call \in [fn : {"Settings"},
                 environ : [{"PDFLATEX_EXECUTION_TIMEOUT", "PDFLATEX_EXECUTION_TIMES"} ->
                               {None} \cup {Some(t) : t \in UNION {[1..k -> {"0", "1", "3"}] :
                                                                    k \in 1..MaxDigits}}]]
    /\ ret = NoCall
    /\ InitOther

LoadSettings ==
    /\ call.fn = "Settings"
    /\ ret = NoCall
    /\ ret' = Settings(call.environ)
    /\ UNCHANGED <<call, buildVars, workerVars>>

\* ReportCreator.__init__ of pdf.py: the timeout handed to wait_for and
\* the range of the loop of create are the values of the settings.
PdfCreatorInit ==
    /\ call.fn = "Settings"
    /\ ret # NoCall
    /\ ret.at = "settings"
    /\ ~ret.raised
    /\ ret' = [ret EXCEPT !.at = "creator"]
    /\ UNCHANGED <<call, buildVars, workerVars>>

SpecSettings == InitSettings /\ [][LoadSettings \/ PdfCreatorInit]_vars

(***************************************************************************)
(* Properties                                                              *)
(***************************************************************************)
Terminal == {"successful", "failed"}
StageOrder == <<"excel", "latex", "pdf">>
Returned == pc = "idle" /\ obs.phase = "returned"
Stages == obs.stages
\* A stage of this build was attempted for record t.
Touched(t) == \E i \in 1..Len(Stages) : Stages[i].t = t
FailedStages == {i \in 1..Len(Stages) : Stages[i].res = "fail"}
PdfSucceeded(t) ==
    \E i \in 1..Len(Stages) : Stages[i] = [t |-> t, stage |-> "pdf", res |-> "ok"]

\* C1: when a report-version build in which some stage failed has ended,
\* the stored status is Failed and the artifact of every stage that
\* succeeded is the stored one.
C1_FailedStageEndsFailed ==
    (Returned /\ info.type = "report" /\ FailedStages # {}) =>
        /\ db[RV].status = "failed"
        /\ Stages[1].res = "ok" => db[RV].xlsx = New(RV)
        /\ Stages[2].res = "ok" => db[RV].tex = New(RV)

\* C2: within a build, a status the build has set to Failed or Succeeded is
\* not changed by a later step of that build.
C2_StatusOnlyForward ==
    [][\A t \in Records :
          (Touched(t) /\ sess[t].status \in Terminal /\ obs'.phase = "running")
              => sess'[t].status = sess[t].status]_vars

C4_FindingsIndependent ==
    (/\ info.type = "vulnerability"
     /\ pc = "idle"
     /\ obs.phase \in {"returned", "aborted"}
     /\ obs.escaped # "copytree") =>
        /\ loc.idx >= Len(info.vulnerabilities)
        /\ \A i \in 1..Len(Stages) :
              Stages[i].res = "fail" => db[Stages[i].t].status = "failed"

\* C5: once the failure boundary of the compile stage has run, the target
\* is marked Failed and the failure notification is the last one emitted,
\* whatever became of reading and storing the log; no failure of that
\* escapes the boundary.
HandlerRan ==
    /\ loc.cause # "-"
    /\ pc \in {"end", "v_loop"} \/ Returned
C5_LogFailureSwallowed ==
    /\ HandlerRan =>
          /\ (IF pc = "idle" THEN db ELSE sess)[loc.t].status = "failed"
          /\ obs.note = [t |-> loc.t, msg |-> "pdf_failed", status |-> "failed"]
    /\ obs.phase = "aborted" => obs.escaped \in {"copytree", "lookup"}
C5_Witness ==
    /\ HandlerRan
    /\ pc = "end"
    /\ loc.cause \in {"missing", "empty", "timeout"}
    /\ loc.logres \in {"read_fail", "store_fail"}

\* C6: a target whose status is Succeeded has no diagnostic log, in the
\* session and in the stored rows, also when an earlier build had stored one.
C6_SuccessClearsLog ==
    \A t \in Records :
        /\ sess[t].status = "successful" => sess[t].pdf_log = NoFile
        /\ db[t].status = "successful" => db[t].pdf_log = NoFile
C6_Witness ==
    /\ Returned
    /\ \E t \in obs.hadLog : Touched(t) /\ db[t].status = "successful"

\* C7: create() emits one progress notification before each pass it starts
\* and runs the passes one after the other; every pass it went on from left a
\* non-empty output file in time, it returns after exactly n such passes, and
\* the pass that timed out or left no or an empty output file is its last.
PassFailures == {"missing", "empty", "timeout"}
C7_PassesInOrder ==
    /\ pc = "pass" =>
          /\ loc.passes <= pdflatex_iterations
          /\ loc.started = loc.passes
          /\ loc.progress = loc.started
          /\ loc.passes > 0 => (loc.lastFile \notin {NoFile, EmptyFile} /\ ~loc.lastTimeout)
    /\ (pc = "fail" /\ loc.cause \in PassFailures) =>
          /\ loc.started = loc.passes + 1
          /\ loc.started <= pdflatex_iterations
          /\ loc.progress = loc.started
          /\ loc.lastTimeout \/ loc.lastFile \in {NoFile, EmptyFile}
          /\ (loc.cause = "timeout") <=> loc.lastTimeout
    /\ \A i \in 1..Len(Stages) :
          (Stages[i].stage = "pdf" /\ Stages[i].res = "ok" /\ Stages[i].t = loc.t) =>
              (loc.passes = pdflatex_iterations /\ loc.progress = pdflatex_iterations)
C7_Witness ==
    /\ pc = "fail"
    /\ loc.cause = "empty"
    /\ loc.started = pdflatex_iterations
    /\ loc.passes = pdflatex_iterations - 1

\* C8: no failure to publish reaches the build: no stage fails and no build
\* is cut short because of a notification, and when the build has ended every
\* target it worked on is stored as Succeeded exactly when its own compile
\* stage succeeded, as in the run where every publish succeeds.
C8_PublishFailureSwallowed ==
    /\ loc.cause # "notify"
    /\ obs.escaped # "notify"
    /\ Returned =>
          \A t \in Records :
              Touched(t) =>
                  db[t].status = IF PdfSucceeded(t) THEN "successful" ELSE "failed"
C8_Witness ==
    /\ Returned
    /\ obs.pubFailed
    /\ \E t \in Records : Touched(t) /\ db[t].status = "successful"

\* C9: the builds that are running hold different directories, the
\* directories that exist are exactly those of the running builds, and a
\* worker that has left process_json holds none, however its build ended.
Holding == {w \in Workers : wdir[w] # NoDir}
C9_DirectoryExclusive ==
    /\ \A v \in Holding, w \in Holding : v # w => wdir[v] # wdir[w]
    /\ dirs = {wdir[w] : w \in Holding}
    /\ \A w \in Workers : (w \in Holding) <=> (wpc[w] \in {"copy", "running"})
C9_Witness ==
    \E v \in Workers, w \in Workers :
        /\ v # w
        /\ wpc[v] = "running"
        /\ wpc[w] = "waiting"
        /\ wlast[w] = "raised"

\* C10: a worker has subscribed, and a message has been handed to
\* process_json, only if all three checks of check_setup passed; when
\* check_setup raised, no worker ever starts.
C10_NoBuildWithoutSetup ==
    /\ (\E w \in Workers : wpc[w] # "unstarted" \/ wlast[w] # "none" \/ wdir[w] # NoDir)
          => (setup.pdf /\ setup.latex /\ setup.excel)
    /\ mainPc = "crashed" =>
          /\ ~(setup.pdf /\ setup.latex /\ setup.excel)
          /\ \A w \in Workers : wpc[w] = "unstarted" /\ wlast[w] = "none"
C10_Witness ==
    /\ mainPc = "crashed"
    /\ setup.pdf
    /\ setup.latex
    /\ ~setup.excel


(***************************************************************************)
(* Properties of the text methods                                          *)
(***************************************************************************)
Done == ret # NoCall
IsToken(piece) == piece.kind = "token"
Tokens(pieces) == SelectSeq(pieces, IsToken)
HasEquals(frag) == \E i \in 1..Len(frag) : frag[i] = "="
FragmentsOf(piece) == IF piece.params.some THEN Split(piece.params.v, ";") ELSE <<>>
KeyValueOnly(piece) ==
    \A i \in 1..Len(FragmentsOf(piece)) : HasEquals(FragmentsOf(piece)[i])
AllKeyValue(pieces) == \A i \in 1..Len(pieces) : KeyValueOnly(pieces[i])
PairOf(frag) ==
    <<Strip(SubSeq(frag, 1, Find(frag, 1, "=") - 1)),
      Strip(SubSeq(frag, Find(frag, 1, "=") + 1, Len(frag)))>>
Replaced(call_) == call_.fn = "replace_placeholders" /\ Done

\* What the claims say a token becomes.
PlainOf(piece, values) ==
    IF ~IsToken(piece) THEN Spell(piece)
    ELSE IF piece.name \in DOMAIN values THEN values[piece.name]
    ELSE Spell(piece)

Escape1(c) == IF c \in {"_", "{", "}"} THEN <<"\\", c>> ELSE <<c>>
Escaped(t) == Concat([i \in 1..Len(t) |-> Escape1(t[i])])
EscapedOf(piece, values) ==
    IF ~IsToken(piece) THEN Spell(piece)
    ELSE IF piece.name \in DOMAIN values THEN values[piece.name]
    ELSE Escaped(Spell(piece))

\* C11: with the Plain strategy every token whose name is a key of the map
\* is replaced by the mapped value, every other token and all other text is
\* left as it is, the call does not abort, and with a complete map the
\* number of replacements is the number of tokens.
C11_PlainSubstitution ==
    (Replaced(call) /\ call.strategy = "plain" /\ AllKeyValue(call.pieces)) =>
        /\ ~ret.raised
        /\ ret.text = Concat([i \in 1..Len(call.pieces) |->
                                PlainOf(call.pieces[i], call.placeholder_values)])
        /\ Len(ret.handed) = Len(Tokens(call.pieces))

\* C12: with the Escaped strategy a token whose name is a key of the map is
\* replaced by the mapped value, unescaped, and any other token by its
\* matched text with _, { and } escaped by a backslash.
C12_EscapedSubstitution ==
    (Replaced(call) /\ call.strategy = "escaped" /\ AllKeyValue(call.pieces)) =>
        /\ ~ret.raised
        /\ ret.text = Concat([i \in 1..Len(call.pieces) |->
                                EscapedOf(call.pieces[i], call.placeholder_values)])

\* C13: a parameter fragment without '=' makes the whole call fail with an
\* error naming the parameter text and no output; when every fragment is
\* key=value, every pair of a token's parameter string is in the parameter
\* set handed to the resolution function for that token.
C13_ParametersParsedOrFatal ==
    Replaced(call) =>
        IF AllKeyValue(call.pieces)
        THEN /\ ~ret.raised
             /\ Len(ret.handed) = Len(Tokens(call.pieces))
             /\ \A i \in 1..Len(Tokens(call.pieces)) :
                  LET frags == FragmentsOf(Tokens(call.pieces)[i])
                  IN  \A j \in 1..Len(frags) :
                        /\ PairOf(frags[j])[1] \in DOMAIN ret.handed[i]
                        /\ ret.handed[i][PairOf(frags[j])[1]] = PairOf(frags[j])[2]
        ELSE /\ ret.raised
             /\ ret.text = <<>>
             /\ \E i \in 1..Len(call.pieces) :
                  /\ ~KeyValueOnly(call.pieces[i])
                  /\ ret.msg = call.pieces[i].params.v
\* What the sanitizer is said to remove: the first character of a line
\* when it is not alphanumeric (a line break is not a character of a line).
Offending(text, i) ==
    /\ i = 1 \/ text[i - 1] = "\n"
    /\ text[i] # "\n"
    /\ text[i] \notin Alnum
RECURSIVE Sanitized(_, _)
Sanitized(text, i) ==
    IF i > Len(text) THEN <<>>
    ELSE (IF Offending(text, i) THEN <<>> ELSE <<text[i]>>) \o Sanitized(text, i + 1)

\* C16: the sanitizer removes exactly the first character of every line
\* that starts with a non-alphanumeric character, keeps every other
\* character and every line break, logs one warning per removed character
\* and never raises.
C16_SanitizerStripsLineStarts ==
    (call.fn = "test_cvs_injection" /\ Done) =>
        /\ ~ret.raised
        /\ ret.text = Sanitized(call.markdown, 1)
        /\ ret.warnings = Cardinality({i \in 1..Len(call.markdown) :
                                          Offending(call.markdown, i)})

\* The English ordinals among the words of the model.
Ordinals ==
    { <<<<"1">>, <<"s", "t">>>>, <<<<"2">>, <<"n", "d">>>>, <<<<"3">>, <<"r", "d">>>>,
      <<<<"4">>, <<"t", "h">>>>, <<<<"1", "1">>, <<"t", "h">>>>,
      <<<<"1", "3">>, <<"t", "h">>>> }

\* C19: an ordinal (1st, 2nd, 3rd, 4th, 11th, 13th) after a space is
\* rewritten into the same number followed by the same suffix in
\* superscript form.
C19_OrdinalKeepsItsSuffix ==
    \A o \in Ordinals :
        (/\ call.fn = "post_processing_func"
         /\ Len(ret) >= 1
         /\ call.content = <<" ">> \o o[1] \o o[2]) =>
            ret[1] = <<" ">> \o o[1] \o <<"$", "^", "{">> \o o[2] \o <<"}", "$">>

\* C20: post_processing_func applied to its own output returns that output.
C20_PostProcessingIdempotent ==
    (call.fn = "post_processing_func" /\ Len(ret) = 2) => ret[2] = ret[1]

C20_Witness ==
    /\ call.fn = "post_processing_func"
    /\ Len(ret) = 2
    /\ ret[1] # call.content
    /\ ret[2] = ret[1]
(***************************************************************************)
(* Properties of the methods that read the project                         *)
(***************************************************************************)
\* The tiers with findings, in the order critical, high, medium, low.
NonZeroTiers(counts) == SelectSeq(<<1, 2, 3, 4>>, LAMBDA k : counts[k] # 0)
FragmentOf(counts, k) ==
    <<DigitOf(counts[k]), <<" critical-", " high-", " medium-", " low-">>[k]>>
RECURSIVE CommaList(_, _)
CommaList(counts, tiers) ==
    IF Len(tiers) = 1 THEN FragmentOf(counts, tiers[1])
    ELSE FragmentOf(counts, tiers[1]) \o <<", ">> \o CommaList(counts, Tail(tiers))

\* C14: the severity phrase lists the non-zero tiers in the order critical,
\* high, medium, low: none gives the empty string, one gives
\* '<n> <tier>-severity issue' with an s exactly when the count exceeds 1,
\* several give the fragments joined by ', ' and ' and ' before the last,
\* followed by 'severity issues'.
C14_SeverityPhrase ==
    (call.fn = "severity_distribution_str" /\ Done) =>
        LET counts == call.severity_distribution
            tiers == NonZeroTiers(counts)
            n == Len(tiers)
        IN  /\ n = 0 => ret[1] = <<>>
            /\ n = 1 => /\ counts[tiers[1]] = 1 =>
                             ret[1] = FragmentOf(counts, tiers[1]) \o <<"severity issue">>
                        /\ counts[tiers[1]] > 1 =>
                             ret[1] = FragmentOf(counts, tiers[1])
                                      \o <<"severity issue", "s">>
            /\ n > 1 => ret[1] = CommaList(counts, SubSeq(tiers, 1, n - 1))
                                 \o <<" and ">> \o FragmentOf(counts, tiers[n])
                                 \o <<"severity issues">>

C14_Witness ==
    /\ call.fn = "severity_distribution_str"
    /\ Done
    /\ call.severity_distribution = <<2, 1, 0, 0>>
    /\ ret[1] = <<"2", " critical-", " and ", "1", " high-", "severity issues">>
\* The join the claims describe: nothing, the item, 'A and B', or the
\* items but the last joined by ', ' and then ', and ' and the last.
RECURSIVE CommaJoin(_)
CommaJoin(items) ==
    IF Len(items) = 1 THEN items[1]
    ELSE items[1] \o <<", ">> \o CommaJoin(Tail(items))
OxfordJoin(items) ==
    CASE Len(items) = 0 -> <<>>
      [] Len(items) = 1 -> items[1]
      [] Len(items) = 2 -> items[1] \o <<" and ">> \o items[2]
      [] OTHER -> CommaJoin(SubSeq(items, 1, Len(items) - 1))
                  \o <<", and ">> \o items[Len(items)]

\* The names of the assessors in alphabetical order.
RECURSIVE Ascending(_)
Ascending(ranks) ==
    IF ranks = {} THEN <<>>
    ELSE LET least == CHOOSE r \in ranks : \A q \in ranks : r <= q
         IN  <<<<"name", DigitOf(least)>>>> \o Ascending(ranks \ {least})
RanksOf(project) ==
    {project.testers[i] : i \in 1..Len(project.testers)}
    \cup (IF project.lead_tester # 0 THEN {project.lead_tester} ELSE {})

PlaceholdersBuilt == call.fn = "placeholders" /\ Done /\ ~ret.raised

\* C15: for each of the four lists (application names, test reasons, test
\* environments, assessors) the join gives '' for no item, the item for
\* one, 'A and B' for two, and 'A, B, and C' for three or more.
C15_OxfordJoinOfTheFourLists ==
    PlaceholdersBuilt =>
        LET p == call.project
        IN  /\ ret.joins.application_names =
                 OxfordJoin([i \in 1..p.applications |->
                     <<"app", DigitOf(i), " (", "id", DigitOf(i), ")">>])
            /\ ret.joins.test_reasons =
                 OxfordJoin([i \in 1..p.reasons |-> <<"reason", DigitOf(i)>>])
            /\ ret.joins.test_environments =
                 OxfordJoin([i \in 1..p.environments |-> <<"env", DigitOf(i)>>])
            /\ ret.joins.assessors = OxfordJoin(Ascending(RanksOf(p)))

\* C18: every conditional key is in the map exactly when its own field is
\* set (customer keys: customer; provider keys: provider; lead tester and
\* manager keys: those persons; end date and test period: end date), and
\* building the map does not fail on an unset optional field.
C18_ConditionalKeys ==
    (call.fn = "placeholders" /\ Done /\ call.project.language_code = "en") =>
        LET p == call.project
            keys == DOMAIN ret.map
            Iff(field, ks) == \A k \in ks : (k \in keys) <=> field
        IN  /\ ~ret.raised
            /\ Iff(p.customer, {"customer_name", "customer_short", "customer_address"})
            /\ Iff(p.provider, {"provider_name", "provider_short", "provider_address"})
            /\ Iff(p.lead_tester # 0, {"lead_tester_name"})
            /\ Iff(p.manager, {"manager_name"})
            /\ Iff(p.end_date, {"project_end_date", "test_period"})
\* The findings that belong in the spreadsheet.
Listed(findings) ==
    {i \in 1..Len(findings) : findings[i].visible /\ findings[i].status # "resolved"}

\* C17: after create() the data rows inside the table's range are as many
\* as the visible, non-resolved findings, each of these findings has
\* exactly one row, no other finding has one, and the range covers every
\* row that holds a finding.
C17_OneRowPerListedFinding ==
    (call.fn = "create" /\ Done /\ ret.at = "saved") =>
        /\ ret.ref.to_y - ret.ref.from_y = Cardinality(Listed(call.findings))
        /\ {ret.cells[y] : y \in DOMAIN ret.cells} = Listed(call.findings)
        /\ Cardinality(DOMAIN ret.cells) = Cardinality(Listed(call.findings))
        /\ \A y \in DOMAIN ret.cells : ret.ref.from_y < y /\ y <= ret.ref.to_y

\* C21: when create has saved the workbook, every row that holds the data
\* of a finding carries the style and the data validation of the template
\* data row: it is the template row itself or one of the rows the style
\* was copied to.
C21_DataRowsStyled ==
    /\ (Done /\ call.fn = "create" /\ ret.at = "saved") =>
          \A y \in DOMAIN ret.cells : y = ret.template \/ y \in ret.styled

\* The number a text of decimal digits denotes, leading zeros allowed.
Decimal(text) ==
    CHOOSE n \in 0..(10 ^ Len(text) - 1) :
        \E z \in 0..(Len(text) - 1) : text = [i \in 1..z |-> "0"] \o Str(n)
Configured(key, default) ==
    IF Truthy(call.environ[key]) THEN Decimal(call.environ[key].v) ELSE default

\* C22: the settings load under every environment, and the timeout and the
\* pass count the Compiler-Driver uses are the configured decimal
\* numbers, 30 seconds and 3 passes when the variable is not set.
C22_TimeoutAndPassCount ==
    /\ (Done /\ call.fn = "Settings") =>
          /\ ~ret.raised
          /\ ret.pdflatex_timeout = Configured("PDFLATEX_EXECUTION_TIMEOUT", 30)
          /\ ret.pdflatex_iterations = Configured("PDFLATEX_EXECUTION_TIMES", 3)

\* C23: when a build has ended, by returning or by an exception that left
\* process_report_creation, every record a stage of it was attempted for
\* (every target that was set to Generating) has Succeeded or Failed as
\* its stored status.
C23_StartedTargetsEndTerminal ==
    /\ (pc = "idle" /\ obs.phase \in {"returned", "aborted"}) =>
          \A t \in Records : Touched(t) => db[t].status \in Terminal

\* C24: in a vulnerability build, a finding that failed in its
\* document-source stage or in the construction of its Compiler-Driver
\* (so no compile attempt was made for it) holds no log that a compile
\* attempt for another finding of the build wrote, neither on the session
\* object nor stored.
C24_NoLogOfAnotherFinding ==
    /\ (info.type = "vulnerability" /\ loc.cause \in {"create", "ctor"}) =>
          \A u \in Records \ {loc.t} :
              /\ sess[loc.t].pdf_log # New(u)
              /\ db[loc.t].pdf_log # New(u)

\* C25: when create() of the Compiler-Driver has gone through all its
\* passes without raising, every one of them had itself written a
\* non-empty output file.
C25_EveryPassProducedOutput ==
    /\ (pc = "pass" /\ loc.passes = pdflatex_iterations) => loc.fresh

\* C26: in the text the sanitizer returns no line begins with a character
\* that is not alphanumeric.
C26_NoLineStartsSpecial ==
    /\ (call.fn = "test_cvs_injection" /\ Done /\ ~ret.raised) =>
          \A i \in 1..Len(ret.text) : ~Offending(ret.text, i)

====
